---- MODULE Spec2Model ----
(***************************************************************************)
(* meta_maas/config.py: locating, loading and validating the YAML          *)
(* configuration.                                                          *)
(*                                                                         *)
(* State: the filesystem and the process environment that find_config      *)
(* probes, and the position and locals of one load_config call.  A call    *)
(* is taken apart at the points where the code touches the outside world   *)
(* (find_config, open, yaml.load + leaving the with block, validate), so   *)
(* that the file handle's lifetime is visible and other processes may      *)
(* change the filesystem between two of its steps.                         *)
(***************************************************************************)
EXTENDS Integers, Sequences, FiniteSets, TLC

VARIABLES
    fs,           \* path -> [kind, data]: what the filesystem holds
    env,          \* os.environ: variable name -> value (a partial function)
    pc,           \* position of the load_config call: idle, find, open, read, validate
    config_path,  \* load_config's argument (None when not given)
    found_path,   \* what find_config returned last
    stream,       \* the file object of the with block
    config_data,  \* the tree yaml.load returned
    result,       \* what the call gave its caller: a value or an exception
    stable,       \* history: no file changed since the call started
    fsops         \* history: number of filesystem changes so far

vars == <<fs, env, pc, config_path, found_path, stream, config_data, result, stable, fsops>>

----------------------------------------------------------------------------
(* Bounds *)

\* filesystem changes in one behaviour
MaxFsOps == 2

\* longest releases / arches array among the generated documents
MaxItems == 2

----------------------------------------------------------------------------
(* Paths, environment, filesystem *)

\* Python's None, for an optional path
None == "None"

\* os.path.join for a relative second component
Join(a, b) == a \o "/" \o b

\* os.getcwd()
getcwd == "/work"

\* the user's entry in the password database, which expanduser falls back to
PwDir == "/home/alice"

\* the home directory a confined snap sees in HOME
SnapUserData == "/home/alice/snap/meta-maas/x1"

\* os.environ, for the three variables the code (or expanduser) reads
Environments ==
    { e \in UNION { [D -> {"/snap/meta-maas/x1", "alice", PwDir, SnapUserData}] :
                        D \in SUBSET {"SNAP", "USER", "HOME"} } :
        /\ "SNAP" \in DOMAIN e => e["SNAP"] = "/snap/meta-maas/x1"
        /\ "USER" \in DOMAIN e => e["USER"] = "alice"
        /\ "HOME" \in DOMAIN e => e["HOME"] \in {PwDir, SnapUserData} }

\* os.path.expanduser("~"): HOME when set, else the password database entry
expanduser(e) == IF "HOME" \in DOMAIN e THEN e["HOME"] ELSE PwDir

CwdPath == Join(getcwd, "meta-maas.yaml")

\* a path only ever given explicitly
EtcPath == "/etc/meta-maas/prod.yaml"

Paths == { CwdPath, Join(PwDir, "meta-maas.yaml"), Join(SnapUserData, "meta-maas.yaml"), EtcPath }

----------------------------------------------------------------------------
(* Documents: a file's text as its YAML syntax tree, scalars not yet resolved *)

NoKids == << >>

\* a plain (unquoted) scalar, a quoted scalar, a mapping, a sequence
P(text) == [t |-> "plain", v |-> text, kids |-> NoKids, items |-> << >>]
Q(text) == [t |-> "quoted", v |-> text, kids |-> NoKids, items |-> << >>]
M(kids) == [t |-> "map", v |-> "", kids |-> kids, items |-> << >>]
L(items) == [t |-> "seq", v |-> "", kids |-> NoKids, items |-> items]

\* text the YAML parser rejects
Malformed == [t |-> "malformed", v |-> "", kids |-> NoKids, items |-> << >>]

\* an empty file
EmptyText == P("")

\* the value of a name that is not bound
Unbound == [t |-> "unbound", v |-> "", kids |-> NoKids, items |-> << >>]

\* yaml's implicit resolver on a plain scalar (YAML 1.1 booleans, integers, null)
ResolveTag(text) ==
    CASE text \in {"True", "true", "yes", "on", "False", "false", "no", "off"} -> "bool"
      [] text \in {"12345", "5240", "1", "0"} -> "int"
      [] text \in {"", "~", "null"} -> "null"
      [] OTHER -> "str"

\* the Python value a plain scalar of the given tag is constructed as
Construct(tag, text) ==
    CASE tag = "bool" -> IF text \in {"True", "true", "yes", "on"} THEN "True" ELSE "False"
      [] tag = "null" -> "None"
      [] OTHER -> text

RECURSIVE Build(_)
\* yaml.load on well-formed text: the tree of Python values
Build(n) ==
    CASE n.t = "plain" -> [n EXCEPT !.t = ResolveTag(n.v), !.v = Construct(ResolveTag(n.v), n.v)]
      [] n.t = "quoted" -> [n EXCEPT !.t = "str"]
      [] n.t = "map" -> [n EXCEPT !.kids = [k \in DOMAIN n.kids |-> Build(n.kids[k])]]
      [] n.t = "seq" -> [n EXCEPT !.items = [i \in DOMAIN n.items |-> Build(n.items[i])]]
      [] OTHER -> n

\* yaml.load(stream) raises (a YAMLError) on text that is not YAML
yaml_raises(text) == text.t = "malformed"

yaml_load(text) == Build(text)

----------------------------------------------------------------------------
(* re.search for the schema's two patterns *)

\* the characters of the keys that stand where a pattern decides
Spell(key) ==
    CASE key = "region1" -> <<"r", "e", "g", "i", "o", "n", "1">>
      [] key = "region-1" -> <<"r", "e", "g", "i", "o", "n", "-", "1">>
      [] key = "region 1" -> <<"r", "e", "g", "i", "o", "n", " ", "1">>
      [] key = "region1\n" -> <<"r", "e", "g", "i", "o", "n", "1", "\n">>
      [] key = "" -> << >>
      [] key = "admin1" -> <<"a", "d", "m", "i", "n", "1">>
      [] key = "admin_1" -> <<"a", "d", "m", "i", "n", "_", "1">>
      [] key = "admin-1" -> <<"a", "d", "m", "i", "n", "-", "1">>
      [] key = "ubuntu" -> <<"u", "b", "u", "n", "t", "u">>
      [] key = "ubuntu-core" -> <<"u", "b", "u", "n", "t", "u", "-", "c", "o", "r", "e">>
      [] key = "custom-tgz" -> <<"c", "u", "s", "t", "o", "m", "-", "t", "g", "z">>
      [] key = "custom.tgz" -> <<"c", "u", "s", "t", "o", "m", ".", "t", "g", "z">>

\* \w for the characters above
IsWord(c) ==
    c \in {"a", "b", "c", "d", "e", "g", "i", "m", "n", "o", "r", "s", "t", "u", "z", "1", "_"}

\* "$" also matches just before a newline that ends the string
BeforeDollar(cs) ==
    IF Len(cs) > 0 /\ cs[Len(cs)] = "\n" THEN {cs, SubSeq(cs, 1, Len(cs) - 1)} ELSE {cs}

re_search(pattern, key) ==
    \E body \in BeforeDollar(Spell(key)) :
        /\ Len(body) >= 1
        /\ \A i \in 1..Len(body) :
              CASE pattern = "^[\\w-]+$" -> IsWord(body[i]) \/ body[i] = "-"
                [] pattern = "^\\w+$" -> IsWord(body[i])

----------------------------------------------------------------------------
(* The schema, and jsonschema's validate for the keywords it uses *)

StringType == [type |-> "string"]

StringArray == [type |-> "array", minItems |-> 1, items |-> StringType, uniqueItems |-> TRUE]

\* a Python str, as yaml_load builds it
Str(text) == [t |-> "str", v |-> text, kids |-> NoKids, items |-> << >>]

SCHEMA ==
    [type |-> "object",
     properties |->
        [regions |->
            [type |-> "object",
             patternProperties |->
                ("^[\\w-]+$" :>
                    [type |-> "object",
                     properties |-> [url |-> StringType, apikey |-> StringType],
                     additionalProperties |-> FALSE,
                     required |-> {"url", "apikey"}]),
             additionalProperties |-> FALSE],
         users |->
            [type |-> "object",
             patternProperties |->
                ("^\\w+$" :>
                    [type |-> "object",
                     properties |->
                        [email |-> StringType,
                         password |-> StringType,
                         is_admin |-> [type |-> "boolean"]],
                     additionalProperties |-> FALSE,
                     required |-> {"email", "password"}]),
             additionalProperties |-> FALSE],
         images |->
            [type |-> "object",
             properties |->
                [source |->
                    [type |-> "object",
                     properties |->
                        [url |-> StringType,
                         keyring_filename |-> StringType,
                         selections |->
                            [type |-> "object",
                             patternProperties |->
                                ("^\\w+$" :>
                                    [type |-> "object",
                                     properties |->
                                        [releases |-> StringArray, arches |-> StringArray],
                                     additionalProperties |-> FALSE,
                                     required |-> {"releases", "arches"}]),
                             additionalProperties |-> FALSE]],
                     additionalProperties |-> FALSE,
                     required |-> {"url", "keyring_filename", "selections"}],
                 custom |->
                    [type |-> "object",
                     patternProperties |->
                        ("^[\\w-]+$" :>
                            [type |-> "object",
                             properties |->
                                [path |-> StringType,
                                 architecture |-> StringType,
                                 filetype |-> [enum |-> {Str("tgz"), Str("ddtgz")}]],
                             additionalProperties |-> FALSE,
                             required |-> {"path", "architecture"}]),
                     additionalProperties |-> FALSE]],
             additionalProperties |-> FALSE]],
     additionalProperties |-> FALSE,
     required |-> {"regions"}]

\* jsonschema's type checker: JSON type name -> Python type
is_type(instance, type) ==
    CASE type = "object" -> instance.t = "map"
      [] type = "array" -> instance.t = "seq"
      [] type = "string" -> instance.t = "str"
      [] type = "boolean" -> instance.t = "bool"

Keys(instance) == IF instance.t = "map" THEN DOMAIN instance.kids ELSE {}

Has(schema, keyword) == keyword \in DOMAIN schema

\* find_additional_properties as it would be if it overlooked patternProperties
find_additional_properties_no_patterns(instance, schema) ==
    { k \in Keys(instance) : ~(Has(schema, "properties") /\ k \in DOMAIN schema.properties) }

\* jsonschema's find_additional_properties: the keys that neither properties
\* names nor a pattern of patternProperties matches
find_additional_properties(instance, schema) ==
    { k \in Keys(instance) :
        /\ ~(Has(schema, "properties") /\ k \in DOMAIN schema.properties)
        /\ ~(Has(schema, "patternProperties")
               /\ \E pat \in DOMAIN schema.patternProperties : re_search(pat, k)) }

RECURSIVE is_valid(_, _)
\* no keyword of the schema reports an error on the instance; the keywords
\* about objects skip what is not a dict, those about arrays what is not a list
is_valid(instance, schema) ==
    /\ Has(schema, "type") => is_type(instance, schema.type)
    /\ Has(schema, "enum") => instance \in schema.enum
    /\ Has(schema, "properties") =>
          \A p \in DOMAIN schema.properties \cap Keys(instance) :
              is_valid(instance.kids[p], schema.properties[p])
    /\ Has(schema, "patternProperties") =>
          \A pat \in DOMAIN schema.patternProperties :
              \A k \in Keys(instance) :
                  re_search(pat, k) => is_valid(instance.kids[k], schema.patternProperties[pat])
    /\ (Has(schema, "additionalProperties") /\ schema.additionalProperties = FALSE) =>
          find_additional_properties(instance, schema) = {}
    /\ Has(schema, "required") => (instance.t = "map" => schema.required \subseteq Keys(instance))
    /\ Has(schema, "minItems") => (instance.t = "seq" => Len(instance.items) >= schema.minItems)
    /\ Has(schema, "items") =>
          (instance.t = "seq" =>
              \A i \in DOMAIN instance.items : is_valid(instance.items[i], schema.items))
    /\ (Has(schema, "uniqueItems") /\ schema.uniqueItems) =>
          (instance.t = "seq" =>
              \A i, j \in DOMAIN instance.items : i # j => instance.items[i] # instance.items[j])

\* validate as it would be if only the top level of the schema were applied
validate_raises_shallow(instance, schema) ==
    ~is_valid(instance, [type |-> schema.type, required |-> schema.required])

\* validate(instance, schema) raises (a ValidationError) when some keyword reports an error
validate_raises(instance, schema) == ~is_valid(instance, schema)

----------------------------------------------------------------------------
(* The texts a configuration file may hold *)

GoodRegion == M([url |-> P("http://region1:5240/MAAS"), apikey |-> P("rw2k:Zx9:tQ")])

\* what may stand under "regions" (Unbound: the key is not there)
RegionsTexts ==
    { Unbound,
      M(NoKids),
      M("region1" :> GoodRegion),
      M(("region1" :> GoodRegion) @@ ("region-1" :> GoodRegion)),
      M("region1" :> M([url |-> P("http://region1:5240/MAAS")])),
      M("region1" :> M([apikey |-> P("rw2k:Zx9:tQ")])),
      M("region1" :> M([url |-> P("http://region1:5240/MAAS"), apikey |-> P("rw2k:Zx9:tQ"),
                        port |-> P("5240")])),
      M("region1" :> M([url |-> P("http://region1:5240/MAAS"), apikey |-> P("12345")])),
      M("region1" :> M([url |-> P("http://region1:5240/MAAS"), apikey |-> Q("12345")])),
      M("region 1" :> GoodRegion),
      M("region1\n" :> GoodRegion),
      EmptyText,
      L(<<GoodRegion>>) }

GoodUser == M([email |-> P("admin1@localhost"), password |-> P("password")])

UsersTexts ==
    { Unbound,
      M("admin1" :> GoodUser),
      M("admin_1" :> M([email |-> P("admin1@localhost"), password |-> P("password"),
                        is_admin |-> P("True")])),
      M("admin1" :> M([email |-> P("admin1@localhost"), password |-> P("password"),
                       is_admin |-> Q("True")])),
      M("admin1" :> M([email |-> P("admin1@localhost")])),
      M("admin1" :> M([email |-> P("admin1@localhost"), password |-> P("password"),
                       shell |-> P("/bin/sh")])),
      M("admin-1" :> GoodUser) }

\* the scalars a releases / arches array is drawn from
ArrayItems == {P("xenial"), P("trusty")}

\* every array of at most MaxItems of them, and some that are no array of strings
ArrayTexts ==
    UNION { [1..n -> ArrayItems] : n \in 0..MaxItems }
        \cup { <<P("xenial"), P("12345")>>, <<Q("12345")>> }

Source(selections) ==
    M([url |-> P("http://images.maas.io/ephemeral-v3/daily/"),
       keyring_filename |-> P("/usr/share/keyrings/ubuntu-cloudimage-keyring.gpg"),
       selections |-> selections])

Selection(releases, arches) == M([releases |-> releases, arches |-> arches])

GoodArray == L(<<P("xenial"), P("trusty")>>)

Custom(fields) == M([custom |-> M("custom-tgz" :> M(fields))])

GoodCustom == [path |-> P("/path/to/image/file.tgz"), architecture |-> P("amd64/generic")]

ImagesTexts ==
    { Unbound, M(NoKids) }
        \cup { M([source |-> Source(M("ubuntu" :> Selection(L(a), GoodArray)))]) : a \in ArrayTexts }
        \cup { M([source |-> Source(M("ubuntu" :> Selection(GoodArray, L(a))))]) : a \in ArrayTexts }
        \cup { M([source |-> Source(M("ubuntu" :> Selection(P("xenial"), GoodArray)))]),
               M([source |-> Source(M("ubuntu" :> M([releases |-> GoodArray])))]),
               M([source |-> Source(M("ubuntu-core" :> Selection(GoodArray, GoodArray)))]),
               M([source |-> M([url |-> P("http://images.maas.io/ephemeral-v3/daily/")])]),
               Custom(GoodCustom),
               Custom(GoodCustom @@ [filetype |-> P("tgz")]),
               Custom(GoodCustom @@ [filetype |-> P("ddtgz")]),
               Custom(GoodCustom @@ [filetype |-> P("zip")]),
               Custom(GoodCustom @@ [filetype |-> P("")]),
               Custom([path |-> P("/path/to/image/file.tgz")]),
               M([custom |-> M("custom.tgz" :> M(GoodCustom))]),
               M([source |-> Source(M("ubuntu" :> Selection(GoodArray, GoodArray))),
                  custom |-> M("custom-tgz" :> M(GoodCustom @@ [filetype |-> P("ddtgz")]))]),
               M([mirror |-> P("http://images.maas.io/")]) }

\* a top-level mapping from the sections that are there
Top(sections) ==
    M([k \in {k \in DOMAIN sections : sections[k].t # "unbound"} |-> sections[k]])

Documents ==
    { Top([regions |-> r, users |-> u, images |-> i, networks |-> n]) :
        r \in RegionsTexts, u \in UsersTexts, i \in ImagesTexts, n \in {Unbound, M(NoKids)} }
        \cup { Malformed, EmptyText, P("regions"), L(<<M([regions |-> M(NoKids)])>>) }

\* the texts the files of the locator's behaviours hold
CoreDocuments ==
    { Top([regions |-> M("region1" :> GoodRegion), users |-> M("admin1" :> GoodUser)]),
      Top([users |-> M("admin1" :> GoodUser)]),
      Malformed }

----------------------------------------------------------------------------
(* The filesystem probes and find_config *)

Absent == [kind |-> "absent", data |-> Unbound]
Directory == [kind |-> "dir", data |-> Unbound]
File(text) == [kind |-> "file", data |-> text]

\* os.path.exists and os.path.isfile
exists(path) == path \in DOMAIN fs /\ fs[path].kind # "absent"
isfile(path) == path \in DOMAIN fs /\ fs[path].kind = "file"

\* a function's outcome: the value it returns, or the exception it raises
Return(value) == [raised |-> "", value |-> value]
Raise(exception) == [raised |-> exception, value |-> None]

\* find_home as it would be if the SNAP branch were missing
find_home_generic(cwd_path) ==
    LET home_path == Join(expanduser(env), "meta-maas.yaml")
    IN  IF exists(home_path) THEN Return(home_path) ELSE Return(None)

\* the else branch of find_config: the home candidate
find_home(cwd_path) ==
    IF "SNAP" \in DOMAIN env /\ "USER" \notin DOMAIN env
    THEN Raise("KeyError")
    ELSE LET home_path_dir == IF "SNAP" \in DOMAIN env
                              THEN Join("/home", env["USER"])
                              ELSE expanduser(env)
             home_path == Join(home_path_dir, "meta-maas.yaml")
         IN  IF exists(home_path) THEN Return(home_path) ELSE Return(None)

\* find_config as it would be if a missing explicit path fell back to the defaults
find_config_fallback(path) ==
    LET cwd_path == Join(getcwd, "meta-maas.yaml")
    IN  IF path # None /\ isfile(path) THEN Return(path)
        ELSE IF exists(cwd_path) THEN Return(cwd_path) ELSE find_home(cwd_path)

\* find_config as it would be if the home candidate were probed first
find_config_home_first(path) ==
    IF path = None
    THEN LET cwd_path == Join(getcwd, "meta-maas.yaml")
             home == find_home(cwd_path)
         IN  IF home.raised = "" /\ home.value # None THEN home
             ELSE IF exists(cwd_path) THEN Return(cwd_path) ELSE home
    ELSE IF ~isfile(path) THEN Return(None) ELSE Return(path)

\* find_config as it would be if it remembered the path it found last
find_config_cached(path) ==
    IF path = None /\ found_path # None
    THEN Return(found_path)
    ELSE IF path = None
         THEN LET cwd_path == Join(getcwd, "meta-maas.yaml")
              IN  IF exists(cwd_path) THEN Return(cwd_path) ELSE find_home(cwd_path)
         ELSE IF ~isfile(path) THEN Return(None) ELSE Return(path)

find_config(path) ==
    IF path = None
    THEN LET cwd_path == Join(getcwd, "meta-maas.yaml")
         IN  IF exists(cwd_path) THEN Return(cwd_path) ELSE find_home(cwd_path)
    ELSE IF ~isfile(path) THEN Return(None) ELSE Return(path)

----------------------------------------------------------------------------
(* load_config, step by step *)

NoStream == [closed |-> TRUE, name |-> None, data |-> Unbound]

\* what a call gives its caller
NoResult == [kind |-> "none", msg |-> "", path |-> None, cause |-> "", value |-> Unbound]
Pending == [NoResult EXCEPT !.kind = "pending"]
ConfigError(msg, path, cause) ==
    [kind |-> "ConfigError", msg |-> msg, path |-> path, cause |-> cause, value |-> Unbound]
Escaped(exception) == [NoResult EXCEPT !.kind = exception]
Configuration(tree) == [NoResult EXCEPT !.kind = "Configuration", !.value = tree]

\* the three messages of load_config
NotFoundMsg == "Unable to find config: %s"
NotFoundNoPathMsg == "Unable to find config."
LoadFailedMsg == "Unable to load config: %s"

\* the caller calls load_config(config_path)
Call(path) ==
    /\ pc = "idle"
    /\ pc' = "find"
    /\ config_path' = path
    /\ result' = Pending
    /\ stable' = TRUE
    /\ UNCHANGED <<fs, env, found_path, stream, config_data, fsops>>

\* found_path = find_config(config_path), and the two raises that follow it
Find ==
    /\ pc = "find"
    /\ LET found == find_config(config_path)
       IN  IF found.raised # ""
           THEN /\ result' = Escaped(found.raised)
                /\ pc' = "idle"
                /\ UNCHANGED found_path
           ELSE /\ found_path' = found.value
                /\ IF config_path # None /\ found.value = None
                   THEN result' = ConfigError(NotFoundMsg, config_path, "") /\ pc' = "idle"
                   ELSE IF found.value = None
                        THEN result' = ConfigError(NotFoundNoPathMsg, None, "") /\ pc' = "idle"
                        ELSE result' = result /\ pc' = "open"
    /\ UNCHANGED <<fs, env, config_path, stream, config_data, stable, fsops>>

\* open(found_path, "r"): the handle reads the file that is there now
Open ==
    /\ pc = "open"
    /\ IF isfile(found_path)
       THEN /\ stream' = [closed |-> FALSE, name |-> found_path, data |-> fs[found_path].data]
            /\ pc' = "read"
            /\ UNCHANGED result
       ELSE /\ result' = ConfigError(LoadFailedMsg, found_path,
                                     IF exists(found_path) THEN "IsADirectoryError"
                                                           ELSE "FileNotFoundError")
            /\ pc' = "idle"
            /\ UNCHANGED stream
    /\ UNCHANGED <<fs, env, config_path, found_path, config_data, stable, fsops>>

\* leaving the block as it would be if the file were opened without "with"
close_never(file) == file

\* the with block's __exit__
close(file) == [file EXCEPT !.closed = TRUE, !.data = Unbound]

\* config_data = yaml.load(stream), then the with block is left
Read ==
    /\ pc = "read"
    /\ stream' = close(stream)
    /\ IF yaml_raises(stream.data)
       THEN /\ result' = ConfigError(LoadFailedMsg, found_path, "YAMLError")
            /\ pc' = "idle"
            /\ UNCHANGED config_data
       ELSE /\ config_data' = yaml_load(stream.data)
            /\ pc' = "validate"
            /\ UNCHANGED result
    /\ UNCHANGED <<fs, env, config_path, found_path, stable, fsops>>

\* validate(config_data, SCHEMA), then return config_data
Validate ==
    /\ pc = "validate"
    /\ IF validate_raises(config_data, SCHEMA)
       THEN result' = ConfigError(LoadFailedMsg, found_path, "ValidationError")
       ELSE result' = Configuration(config_data)
    /\ pc' = "idle"
    /\ config_data' = Unbound
    /\ UNCHANGED <<fs, env, config_path, found_path, stream, stable, fsops>>

----------------------------------------------------------------------------
(* Other processes change the filesystem *)

Change(path, entry) ==
    /\ fsops < MaxFsOps
    /\ fs[path] # entry
    /\ fs' = [fs EXCEPT ![path] = entry]
    /\ fsops' = fsops + 1
    /\ stable' = FALSE
    /\ UNCHANGED <<env, pc, config_path, found_path, stream, config_data, result>>

\* a file is created, or replaced by a new one
WriteFile(path, text) == fs[path].kind # "dir" /\ Change(path, File(text))

MakeDir(path) == fs[path].kind = "absent" /\ Change(path, Directory)

Remove(path) == Change(path, Absent)

----------------------------------------------------------------------------
(* Specifications *)

Init ==
    /\ fs = [path \in Paths |-> Absent]
    /\ env \in Environments
    /\ pc = "idle"
    /\ config_path = None
    /\ found_path = None
    /\ stream = NoStream
    /\ config_data = Unbound
    /\ result = NoResult
    /\ stable = TRUE
    /\ fsops = 0

Next ==
    \/ \E path \in Paths \cup {None} : Call(path)
    \/ Find
    \/ Open
    \/ Read
    \/ Validate
    \/ \E path \in Paths, text \in CoreDocuments : WriteFile(path, text)
    \/ \E path \in Paths : MakeDir(path)
    \/ \E path \in Paths : Remove(path)

Spec == Init /\ [][Next]_vars

\* one file, holding any of the documents, and nothing else changing it
InitDocument ==
    /\ \E text \in Documents : fs = [path \in Paths |-> IF path = CwdPath THEN File(text) ELSE Absent]
    /\ env = << >>
    /\ pc = "idle"
    /\ config_path = None
    /\ found_path = None
    /\ stream = NoStream
    /\ config_data = Unbound
    /\ result = NoResult
    /\ stable = TRUE
    /\ fsops = 0

NextDocument ==
    \/ \E path \in {None, CwdPath} : Call(path)
    \/ Find
    \/ Open
    \/ Read
    \/ Validate

SpecDocument == InitDocument /\ [][NextDocument]_vars

----------------------------------------------------------------------------
(* The locator and the loader's failures *)

\* the step of a call that runs find_config
FindStep == pc = "find" /\ pc' # "find"

\* the home candidates, written out
SnapHomePath == "/home/alice/meta-maas.yaml"
HomePath == IF "HOME" \in DOMAIN env THEN env["HOME"] \o "/meta-maas.yaml" ELSE SnapHomePath

NotFound(path) == ConfigError(NotFoundMsg, path, "")
NotFoundNoPath == ConfigError(NotFoundNoPathMsg, None, "")

\* C1: a call with an explicit path that is no existing regular file ends in
\* the not-found error naming that path, whatever the default candidates hold,
\* and opens nothing
C1_ExplicitMissing ==
    [][(FindStep /\ config_path # None /\ fs[config_path].kind # "file")
          => (pc' = "idle" /\ result' = NotFound(config_path) /\ stream' = stream)]_vars

C1_Witness ==
    /\ pc = "idle" /\ stable
    /\ config_path = EtcPath /\ fs[EtcPath].kind = "dir"
    /\ fs[CwdPath].kind = "file" /\ ~validate_raises(yaml_load(fs[CwdPath].data), SCHEMA)
    /\ result = NotFound(EtcPath)

\* C2: without an explicit path, when meta-maas.yaml exists in the working
\* directory find_config returns it, and it is the file load_config opens,
\* whatever the home directory holds
C2_CwdFirst ==
    [][/\ (FindStep /\ config_path = None /\ fs[CwdPath].kind # "absent")
            => (found_path' = CwdPath /\ pc' = "open")
       /\ (pc = "open" /\ pc' = "read") => stream'.name = found_path]_vars

C2_Witness ==
    /\ pc = "read" /\ stable /\ config_path = None
    /\ fs[HomePath].kind = "file"
    /\ ~stream.closed /\ stream.name = CwdPath

\* C3: without an explicit path, when no candidate exists the call ends in the
\* not-found error that names no path, and opens nothing
C3_NothingFound ==
    [][(FindStep /\ config_path = None /\ \A path \in Paths : fs[path].kind = "absent")
          => (pc' = "idle" /\ result' = NotFoundNoPath /\ stream' = stream)]_vars

\* C6: a call ends in a Configuration or in a ConfigError, nothing else
C6_OnlyConfigError ==
    pc = "idle" => result.kind \in {"none", "Configuration", "ConfigError"}

\* C7: without an explicit path and without the working-directory candidate,
\* with SNAP and USER in the environment, the only home candidate probed is
\* /home/<USER>/meta-maas.yaml: it is returned when it exists, and nothing is
\* found otherwise, whatever expanduser's home directory holds
C7_SnapHome ==
    [][(/\ FindStep /\ config_path = None /\ fs[CwdPath].kind = "absent"
        /\ "SNAP" \in DOMAIN env /\ "USER" \in DOMAIN env)
          => IF fs[SnapHomePath].kind # "absent"
             THEN found_path' = SnapHomePath /\ pc' = "open"
             ELSE found_path' = None /\ pc' = "idle" /\ result' = NotFoundNoPath]_vars

C7_Witness ==
    /\ pc = "idle" /\ stable /\ config_path = None
    /\ "SNAP" \in DOMAIN env /\ "USER" \in DOMAIN env
    /\ HomePath # SnapHomePath /\ fs[HomePath].kind = "file"
    /\ fs[SnapHomePath].kind = "absent" /\ fs[CwdPath].kind = "absent"
    /\ result = NotFoundNoPath

\* C8: without an explicit path, the path find_config returns is a regular file
C8_RegularFileOnly ==
    [][(FindStep /\ config_path = None /\ pc' = "open") => fs[found_path'].kind = "file"]_vars

\* C9: the file handle is open only while yaml.load reads it: it is closed when
\* validate runs and when the call has ended, however it ended
C9_HandleReleased == pc # "read" => stream.closed

C9_Witness ==
    /\ pc = "idle" /\ result.kind = "ConfigError" /\ result.cause = "YAMLError"
    /\ stream.name = found_path /\ stream.closed

\* what a call must end in, from its argument, the filesystem and the environment alone
Located(path) ==
    CASE path # None -> IF fs[path].kind = "file" THEN path ELSE None
      [] path = None /\ fs[CwdPath].kind # "absent" -> CwdPath
      [] path = None /\ fs[CwdPath].kind = "absent" /\ "SNAP" \in DOMAIN env ->
            IF fs[SnapHomePath].kind # "absent" THEN SnapHomePath ELSE None
      [] OTHER -> IF fs[HomePath].kind # "absent" THEN HomePath ELSE None

Outcome(path) ==
    IF path = None /\ fs[CwdPath].kind = "absent" /\ "SNAP" \in DOMAIN env /\ "USER" \notin DOMAIN env
    THEN Escaped("KeyError")
    ELSE LET at == Located(path)
         IN  CASE at = None /\ path # None -> NotFound(path)
               [] at = None /\ path = None -> NotFoundNoPath
               [] OTHER ->
                    CASE fs[at].kind = "dir" -> ConfigError(LoadFailedMsg, at, "IsADirectoryError")
                      [] fs[at].kind = "file" /\ fs[at].data.t = "malformed" ->
                            ConfigError(LoadFailedMsg, at, "YAMLError")
                      [] OTHER ->
                            IF is_valid(yaml_load(fs[at].data), SCHEMA)
                            THEN Configuration(yaml_load(fs[at].data))
                            ELSE ConfigError(LoadFailedMsg, at, "ValidationError")

\* C10: whatever calls and filesystem changes came before, a call during which
\* the filesystem stood still ends in what its argument, the filesystem and the
\* environment of that moment determine
C10_Independent ==
    [][(pc # "idle" /\ pc' = "idle" /\ stable) => result' = Outcome(config_path)]_vars

\* an earlier call opened the working-directory file; it is gone, and this call finds nothing
C10_Witness ==
    /\ pc = "idle" /\ stable /\ config_path = None
    /\ stream.name = CwdPath /\ fs[CwdPath].kind = "absent"
    /\ result = NotFoundNoPath

----------------------------------------------------------------------------
(* The data model, written out, and the loader on the documents *)

RECURSIVE At(_, _)
\* the node a sequence of keys leads to (Unbound when a key is not there)
At(node, keys) ==
    IF keys = << >> THEN node
    ELSE IF node.t = "map" /\ Head(keys) \in DOMAIN node.kids
         THEN At(node.kids[Head(keys)], Tail(keys))
         ELSE Unbound

Entries(node) == IF node.t = "map" THEN { node.kids[k] : k \in DOMAIN node.kids } ELSE {}

\* an identifier: letters, digits, underscores and, where allowed, hyphens
Identifier(key, hyphen) ==
    /\ Len(Spell(key)) >= 1
    /\ \A i \in 1..Len(Spell(key)) : IsWord(Spell(key)[i]) \/ (hyphen /\ Spell(key)[i] = "-")

\* a record with exactly the required fields and at most the optional ones
Fields(node, required, optional) ==
    /\ node.t = "map"
    /\ required \subseteq DOMAIN node.kids
    /\ DOMAIN node.kids \subseteq required \cup optional

Strings(node, fields) == \A f \in fields \cap Keys(node) : node.kids[f].t = "str"

StringSet(node) ==
    /\ node.t = "seq" /\ Len(node.items) >= 1
    /\ \A i \in DOMAIN node.items : node.items[i].t = "str"
    /\ \A i, j \in DOMAIN node.items : i # j => node.items[i].v # node.items[j].v

RegionsConform(node) ==
    /\ node.t = "map"
    /\ \A k \in DOMAIN node.kids :
          /\ Identifier(k, TRUE)
          /\ Fields(node.kids[k], {"url", "apikey"}, {})
          /\ Strings(node.kids[k], {"url", "apikey"})

UsersConform(node) ==
    /\ node.t = "map"
    /\ \A k \in DOMAIN node.kids :
          /\ Identifier(k, FALSE)
          /\ Fields(node.kids[k], {"email", "password"}, {"is_admin"})
          /\ Strings(node.kids[k], {"email", "password"})
          /\ "is_admin" \in DOMAIN node.kids[k].kids => node.kids[k].kids["is_admin"].t = "bool"

SourceConforms(node) ==
    /\ Fields(node, {"url", "keyring_filename", "selections"}, {})
    /\ Strings(node, {"url", "keyring_filename"})
    /\ node.kids["selections"].t = "map"
    /\ \A k \in DOMAIN node.kids["selections"].kids :
          /\ Identifier(k, FALSE)
          /\ Fields(node.kids["selections"].kids[k], {"releases", "arches"}, {})
          /\ StringSet(node.kids["selections"].kids[k].kids["releases"])
          /\ StringSet(node.kids["selections"].kids[k].kids["arches"])

CustomConforms(node) ==
    /\ node.t = "map"
    /\ \A k \in DOMAIN node.kids :
          /\ Identifier(k, TRUE)
          /\ Fields(node.kids[k], {"path", "architecture"}, {"filetype"})
          /\ Strings(node.kids[k], {"path", "architecture", "filetype"})
          /\ "filetype" \in DOMAIN node.kids[k].kids =>
                node.kids[k].kids["filetype"].v \in {"tgz", "ddtgz"}

\* the data model: regions, and optionally users and images, closed at every level
Conforms(tree) ==
    /\ Fields(tree, {"regions"}, {"users", "images"})
    /\ RegionsConform(tree.kids["regions"])
    /\ "users" \in DOMAIN tree.kids => UsersConform(tree.kids["users"])
    /\ "images" \in DOMAIN tree.kids =>
          /\ Fields(tree.kids["images"], {}, {"source", "custom"})
          /\ "source" \in DOMAIN tree.kids["images"].kids =>
                SourceConforms(tree.kids["images"].kids["source"])
          /\ "custom" \in DOMAIN tree.kids["images"].kids =>
                CustomConforms(tree.kids["images"].kids["custom"])

\* the tree yaml.load builds from the file in the working directory
Parsed == yaml_load(fs[CwdPath].data)

\* a call has ended on a file whose text is YAML
LoadedText == pc = "idle" /\ result.kind # "none" /\ fs[CwdPath].data.t # "malformed"

\* C4: on a document that conforms to the data model the call returns the tree
\* yaml.load built, as it is
C4_ValidReturned == (LoadedText /\ Conforms(Parsed)) => result = Configuration(Parsed)

C4_Witness ==
    /\ LoadedText /\ Conforms(Parsed) /\ result.kind = "Configuration"
    /\ {"region1", "region-1"} \subseteq DOMAIN result.value.kids["regions"].kids
    /\ At(result.value, <<"users", "admin_1", "is_admin">>).t = "bool"
    /\ At(result.value, <<"images", "custom", "custom-tgz", "filetype">>).v = "ddtgz"
    /\ At(result.value, <<"images", "source", "selections", "ubuntu", "arches">>).t = "seq"

\* the violations, one by one
NoRegionsKey(tree) == tree.t # "map" \/ "regions" \notin DOMAIN tree.kids

RegionEntryBroken(tree) ==
    \E e \in Entries(At(tree, <<"regions">>)) : e.t = "map" /\ DOMAIN e.kids # {"url", "apikey"}

ArrayBroken(tree) ==
    \E e \in Entries(At(tree, <<"images", "source", "selections">>)) :
        \E f \in {"releases", "arches"} :
            LET a == At(e, <<f>>)
            IN  /\ a.t = "seq"
                /\ \/ Len(a.items) = 0
                   \/ \E i, j \in DOMAIN a.items : i # j /\ a.items[i] = a.items[j]

FiletypeUnknown(tree) ==
    \E e \in Entries(At(tree, <<"images", "custom">>)) :
        At(e, <<"filetype">>).t # "unbound"
            /\ ~(At(e, <<"filetype">>).t = "str" /\ At(e, <<"filetype">>).v \in {"tgz", "ddtgz"})

\* the node is there and is not of the type
Mistyped(node, type) == node.t # "unbound" /\ node.t # type

WrongType(tree) ==
    \/ Mistyped(tree, "map")
    \/ \E s \in {"regions", "users", "images"} : Mistyped(At(tree, <<s>>), "map")
    \/ \E e \in Entries(At(tree, <<"regions">>)) :
          Mistyped(e, "map") \/ \E f \in {"url", "apikey"} : Mistyped(At(e, <<f>>), "str")
    \/ \E e \in Entries(At(tree, <<"users">>)) :
          \/ Mistyped(e, "map")
          \/ \E f \in {"email", "password"} : Mistyped(At(e, <<f>>), "str")
          \/ Mistyped(At(e, <<"is_admin">>), "bool")
    \/ \E s \in {"source", "custom"} : Mistyped(At(tree, <<"images", s>>), "map")
    \/ \E f \in {"url", "keyring_filename"} : Mistyped(At(tree, <<"images", "source", f>>), "str")
    \/ Mistyped(At(tree, <<"images", "source", "selections">>), "map")
    \/ \E e \in Entries(At(tree, <<"images", "source", "selections">>)) :
          \/ Mistyped(e, "map")
          \/ \E f \in {"releases", "arches"} :
                \/ Mistyped(At(e, <<f>>), "seq")
                \/ \E i \in DOMAIN At(e, <<f>>).items : At(e, <<f>>).items[i].t # "str"
    \/ \E e \in Entries(At(tree, <<"images", "custom">>)) :
          Mistyped(e, "map") \/ \E f \in {"path", "architecture"} : Mistyped(At(e, <<f>>), "str")

Violates(tree) ==
    \/ NoRegionsKey(tree)
    \/ RegionEntryBroken(tree)
    \/ ArrayBroken(tree)
    \/ FiletypeUnknown(tree)
    \/ WrongType(tree)

\* C5: on a document with a violation (no regions key; a region entry without
\* url or apikey or with an undeclared field; an empty releases or arches array
\* or one with duplicates; a wrong type; an unknown filetype) the call ends in
\* the load error carrying the path it found, whatever else the document holds
C5_AllOrNothing ==
    (LoadedText /\ Violates(Parsed)) => result = ConfigError(LoadFailedMsg, CwdPath, "ValidationError")

\* one duplicate in one array, everything else in order
C5_Witness ==
    /\ LoadedText /\ result.kind = "ConfigError"
    /\ ArrayBroken(Parsed)
    /\ ~NoRegionsKey(Parsed) /\ ~RegionEntryBroken(Parsed) /\ ~FiletypeUnknown(Parsed) /\ ~WrongType(Parsed)
    /\ DOMAIN Parsed.kids = {"regions", "users", "images"}
    /\ Len(At(Parsed, <<"images", "source", "selections", "ubuntu", "arches">>).items) = 2

====
